---- MODULE Spec2Model ----
(***************************************************************************)
(* EDUNET Smart Study Planner: the credential store (edunet_auth.py), the  *)
(* per-user task store and the script run of edunet_study_planner.py.      *)
(*                                                                         *)
(* Text is a sequence of one-character strings, so that strip(), lower()   *)
(* and the re.sub of the file name are computed, not assumed.  A CSV file  *)
(* is the sequence of its rows as written; reading it back goes through    *)
(* pandas.read_csv, which turns the default NA spellings into NaN.         *)
(***************************************************************************)
EXTENDS Integers, Sequences, FiniteSets, TLC

VARIABLES usersFile, taskFiles, session, now, registered, last

vars == <<usersFile, taskFiles, session, now, registered, last>>

(* ------------------------------ bounds -------------------------------- *)
MaxEmailLen == 2
MaxUsers == 3
MaxTasks == 3
MaxDay == 3
MaxSuggestTasks == 2
TicksPerDay == 3

(* ------------------------------- text --------------------------------- *)
LowerChar(c) ==
    CASE c = "A" -> "a"
      [] c = "B" -> "b"
      [] c = "N" -> "n"
      [] OTHER -> c

IsSpace(c) == c = " "

lower(s) == [i \in 1..Len(s) |-> LowerChar(s[i])]

RECURSIVE lstrip(_)
lstrip(s) == IF s # <<>> /\ IsSpace(Head(s)) THEN lstrip(Tail(s)) ELSE s

RECURSIVE rstrip(_)
rstrip(s) ==
    IF s # <<>> /\ IsSpace(s[Len(s)]) THEN rstrip(SubSeq(s, 1, Len(s) - 1)) ELSE s

strip(s) == rstrip(lstrip(s))

\* email.strip().lower()
NormalizeEmail(email) == lower(strip(email))

\* All texts over an alphabet up to a length.
RECURSIVE TextsUpTo(_, _)
TextsUpTo(alphabet, n) ==
    IF n = 0 THEN {<<>>}
    ELSE LET shorter == TextsUpTo(alphabet, n - 1)
         IN shorter \cup {Append(t, c) : t \in shorter, c \in alphabet}

(* ------------------------ pandas CSV round trip ----------------------- *)
\* The missing value (float nan / None / NaT) of a cell.
NaN == <<"nan-cell">>

\* read_csv's default na_values that an input of the model can spell.
NAValues == {<<>>, <<"N", "A">>, <<"n", "a", "n">>, <<"n", "u", "l", "l">>}

\* to_csv: a missing cell is written as the empty field.
WriteCell(v) == IF v = NaN THEN <<>> ELSE v

\* read_csv: an NA spelling is read as the missing value.
ReadCell(text) == IF text \in NAValues THEN NaN ELSE text

\* Series == value, cell by cell: the missing value equals nothing.
CellEq(cell, v) == cell # NaN /\ v # NaN /\ cell = v

(* -------------------------- credential store -------------------------- *)
\* SHA-256 hex digest: a fixed-length text that is never an NA spelling and,
\* on the passwords of the model, differs for different passwords.
hash_password(password) == <<"sha256", password>>

load_users == [i \in 1..Len(usersFile) |->
                 [email |-> ReadCell(usersFile[i].email),
                  password |-> ReadCell(usersFile[i].password)]]

save_users(df) == [i \in 1..Len(df) |->
                     [email |-> WriteCell(df[i].email),
                      password |-> WriteCell(df[i].password)]]

\* email in users["email"].values
EmailKnown(users, email) == \E i \in 1..Len(users) : CellEq(users[i].email, email)

\* register_user: (success, file after the call)
register_user(email, password) ==
    LET users == load_users
        e == NormalizeEmail(email)
    IN IF EmailKnown(users, e)
       THEN [ok |-> FALSE, file |-> usersFile]
       ELSE [ok |-> TRUE,
             file |-> save_users(Append(users, [email |-> e,
                                                password |-> hash_password(password)]))]

login_user(email, password) ==
    LET users == load_users
        e == NormalizeEmail(email)
        hashed == hash_password(password)
    IN \E i \in 1..Len(users) :
          CellEq(users[i].email, e) /\ CellEq(users[i].password, hashed)

(* ----------------------------- constants ------------------------------ *)
ALL_EFFORTS == {"Low", "Medium", "High"}
ALL_TYPES == {"Reading", "Assignment", "Revision", "Project", "Other"}
ALL_USER_PRIORITIES == {"Low", "Medium", "High"}
ALL_AI_PRIORITIES == {"Low", "Medium", "High"}
EFFORT_RATINGS == {"Shorter", "As Estimated", "Longer"}

(* ------------------------------ the clock ----------------------------- *)
\* now counts ticks; a day has TicksPerDay of them, tick 0 of a day is midnight.
Today == now \div TicksPerDay

Max(a, b) == IF a >= b THEN a ELSE b

\* An optional typed cell (a date, a number, a choice): missing or one value.
Missing == <<>>
Some(v) == <<v>>

\* calculate_days_until_due of a calendar date: the date at midnight minus
\* datetime.now(), timedelta.days (the floor), clamped at 0.  Missing for a
\* missing date.
calculate_days_until_due(due_date) ==
    IF due_date = Missing THEN Missing
    ELSE LET delta == due_date[1] * TicksPerDay - now
         IN Some(Max(0, delta \div TicksPerDay))

(* ------------------------------ task store ---------------------------- *)
Digits == {"0", "1", "2", "3", "4", "5", "6", "7", "8", "9"}
LowerLetters == {"a", "b", "c", "d", "e", "f", "g", "h", "i", "j", "k", "l", "m",
                 "n", "o", "p", "q", "r", "s", "t", "u", "v", "w", "x", "y", "z"}
UpperLetters == {"A", "B", "C", "D", "E", "F", "G", "H", "I", "J", "K", "L", "M",
                 "N", "O", "P", "Q", "R", "S", "T", "U", "V", "W", "X", "Y", "Z"}

\* The class [0-9A-Za-z\-_.]
FilenameChars == Digits \cup LowerLetters \cup UpperLetters \cup {"-", "_", "."}

\* re.sub(r"[^0-9A-Za-z\-_.]", "_", email.lower())
sanitize_email_for_filename(email) ==
    LET e == lower(email)
    IN [i \in 1..Len(e) |-> IF e[i] \in FilenameChars THEN e[i] ELSE "_"]

\* A variant that names one file for every user.
SharedTasksFilename(email) == <<"tasks_", ".csv">>

get_tasks_filename_for_user(email) ==
    <<"tasks_">> \o sanitize_email_for_filename(email) \o <<".csv">>

\* One row of a tasks file as read: the text columns go through read_csv's NA
\* parsing; the other columns are choices, dates and numbers, which never spell
\* an NA value, and missing cells.
ReadRow(r) == [r EXCEPT !.name = ReadCell(@), !.course = ReadCell(@)]

WriteRow(r) == [r EXCEPT !.name = WriteCell(@), !.course = WriteCell(@)]

ReadRows(rows) == [i \in 1..Len(rows) |-> ReadRow(rows[i])]

WriteRows(df) == [i \in 1..Len(df) |-> WriteRow(df[i])]

\* taskFiles maps the names of the files that exist to their rows; a file that
\* does not exist reads as the empty frame.
LoadFrom(files, email) ==
    LET filename == get_tasks_filename_for_user(email)
    IN IF filename \in DOMAIN files THEN ReadRows(files[filename]) ELSE <<>>

load_tasks_for_user(email) == LoadFrom(taskFiles, email)

\* The task files after save_tasks_for_user(email, df).
save_tasks_for_user(email, df) ==
    LET filename == get_tasks_filename_for_user(email)
    IN [f \in DOMAIN taskFiles \cup {filename} |->
          IF f = filename THEN WriteRows(df) ELSE taskFiles[f]]

IsPending(r) == r.status = "Pending"

\* df_tasks[df_tasks['Status'] == 'Pending']['Task Name'].tolist()
PendingNames(df) == {df[i].name : i \in {j \in 1..Len(df) : IsPending(df[j])}}

AllNames(df) == {df[i].name : i \in 1..Len(df)}

\* df_tasks[df_tasks['Task Name'] == choice].index: the positions, in order.
NameIndex(df, choice) == {i \in 1..Len(df) : CellEq(df[i].name, choice)}

Min(S) == CHOOSE x \in S : \A y \in S : x <= y

\* The new_task dict of the Add Task form.
new_task(task_name, course, due_date, effort, task_type, user_priority) ==
    [name |-> task_name, course |-> course, due |-> Some(due_date),
     effort |-> effort, type |-> task_type, user_priority |-> user_priority,
     ai_priority |-> user_priority, status |-> "Pending",
     days |-> calculate_days_until_due(Some(due_date)),
     actual_priority |-> Missing, actual_effort |-> Missing, completed |-> Missing]

\* The frame after the Add Task form is submitted (unchanged: "Please fill in").
AddedFrame(df, task_name, course, due_date, effort, task_type, user_priority) ==
    IF task_name # <<>> /\ course # <<>>
    THEN Append(df, new_task(task_name, course, due_date, effort, task_type,
                             user_priority))
    ELSE df

\* The row that complete_form marks: index[0] of the rows with the chosen name.
CompleteIndex(df, choice) == Min(NameIndex(df, choice))

\* A variant that marks the task Completed without stamping the date.
CompletedFrameNoDate(df, choice, actual_priority, actual_effort) ==
    IF NameIndex(df, choice) = {} THEN df
    ELSE [df EXCEPT ![Min(NameIndex(df, choice))] =
             [@ EXCEPT !.status = "Completed",
                       !.actual_priority = Some(actual_priority),
                       !.actual_effort = Some(actual_effort)]]

\* The frame after "Submit Feedback & Complete"; index[0] of an empty index
\* raises IndexError before anything is saved.
CompletedFrame(df, choice, actual_priority, actual_effort) ==
    IF NameIndex(df, choice) = {} THEN df
    ELSE [df EXCEPT ![CompleteIndex(df, choice)] =
             [@ EXCEPT !.status = "Completed",
                       !.actual_priority = Some(actual_priority),
                       !.actual_effort = Some(actual_effort),
                       !.completed = Some(Today)]]

\* df_tasks[df_tasks['Task Name'] != delete_choice].reset_index(drop=True)
DeletedFrame(df, delete_choice) ==
    LET Keep(r) == ~CellEq(r.name, delete_choice)
    IN SelectSeq(df, Keep)

(* --------------------------- study suggestion ------------------------- *)
\* effort_map, in tenths of an hour: Low 1.0, Medium 2.5, High 5.0.
EffortTenths(effort) ==
    CASE effort = "Low" -> 10
      [] effort = "Medium" -> 25
      [] effort = "High" -> 50

\* pending['Effort'].map(effort_map).sum(), in tenths of an hour.
RECURSIVE TotalTenths(_)
TotalTenths(pending) ==
    IF pending = <<>> THEN 0
    ELSE EffortTenths(Head(pending).effort) + TotalTenths(Tail(pending))

\* round(x, 1) of x = tenths / days hours, as a number of tenths: the nearest
\* one, a tie going to the even tenth.
RoundTenths(tenths, days) ==
    LET q == tenths \div days
        r == tenths % days
    IN IF 2 * r < days THEN q
       ELSE IF 2 * r > days THEN q + 1
       ELSE IF q % 2 = 0 THEN q ELSE q + 1

\* A variant that counts every task, Completed ones too.
SuggestionsOverAllTasks(df) ==
    IF df = <<>> THEN Missing
    ELSE LET dues == {df[i].due[1] : i \in {j \in 1..Len(df) : df[j].due # Missing}}
             days_remaining == IF dues = {} THEN 7 ELSE Max(1, Min(dues) - Today)
         IN IF SelectSeq(df, IsPending) = <<>> THEN Some(0)
            ELSE Some(RoundTenths(TotalTenths(df), days_remaining))

\* study_time_suggestions(df): Missing for None, else tenths of an hour a day.
study_time_suggestions(df) ==
    IF df = <<>> THEN Missing
    ELSE LET pending == SelectSeq(df, IsPending)
             dues == {pending[i].due[1] :
                        i \in {j \in 1..Len(pending) : pending[j].due # Missing}}
             days_remaining == IF dues = {} THEN 7
                               ELSE Max(1, Min(dues) - Today)
         IN IF pending = <<>> THEN Some(0)
            ELSE Some(RoundTenths(TotalTenths(pending), days_remaining))

(* ----------------------------- script runs ---------------------------- *)
\* st.session_state.user_email of a session that is not logged in.
None == <<"None-value">>

NoOp == [op |-> "none"]

NewSession == [user_email |-> None, verified |-> None,
               pc |-> "idle", df |-> <<>>, stale |-> FALSE]

\* The script passes st.stop() only with user_email set.
LoggedIn(s) == session[s].user_email # None

\* register_user from the credential store or from the Register tab.
Register(email, password) ==
    LET r == register_user(email, password)
    IN /\ r.ok => Len(usersFile) < MaxUsers
       /\ usersFile' = r.file
       /\ registered' = IF r.ok
                        THEN registered \cup {<<NormalizeEmail(email), password>>}
                        ELSE registered
       /\ last' = [op |-> "register", email |-> email, password |-> password,
                   ok |-> r.ok, before |-> usersFile, known |-> registered]
       /\ UNCHANGED <<taskFiles, session, now>>

\* login_user called on its own.
Verify(email, password) ==
    /\ last' = [op |-> "verify", email |-> email, password |-> password,
                ok |-> login_user(email, password)]
    /\ UNCHANGED <<usersFile, taskFiles, session, now, registered>>

\* The Register button of the sign-in sidebar.
RegisterClick(s, email, password) ==
    /\ ~LoggedIn(s)
    /\ Register(email, password)

\* A variant that logs in without asking login_user.
LoginResultUnchecked(s, email, password) == NormalizeEmail(email)

\* user_email after the Login button: set when login_user accepts the
\* credentials.
LoginResult(s, email, password) ==
    IF login_user(email, password) THEN NormalizeEmail(email)
    ELSE session[s].user_email

\* verified remembers the email whose credentials login_user accepted.
LoginClick(s, email, password) ==
    /\ ~LoggedIn(s)
    /\ session' = [session EXCEPT
                     ![s].user_email = LoginResult(s, email, password),
                     ![s].verified = IF login_user(email, password)
                                     THEN NormalizeEmail(email) ELSE None]
    /\ last' = [op |-> "login", sess |-> s, email |-> email,
                ok |-> login_user(email, password)]
    /\ UNCHANGED <<usersFile, taskFiles, now, registered>>

\* The Logout button: session_state.clear(), and the next run resets
\* user_email to None.
Logout(s) ==
    /\ LoggedIn(s)
    /\ session' = [session EXCEPT ![s] = NewSession]
    /\ last' = [op |-> "logout", sess |-> s]
    /\ UNCHANGED <<usersFile, taskFiles, now, registered>>

\* What a run of the main app records: the user it ran for, the file it read
\* or wrote and the task files before it.
RunRecord(s, op) ==
    [op |-> op, sess |-> s, user |-> session[s].user_email,
     verified |-> session[s].verified,
     file |-> get_tasks_filename_for_user(session[s].user_email),
     filesBefore |-> taskFiles]

\* A run of the main app with no button pressed: it loads the user's tasks.
View(s) ==
    /\ LoggedIn(s)
    /\ last' = RunRecord(s, "load")
    /\ UNCHANGED <<usersFile, taskFiles, session, now, registered>>

\* "Send my tasks to my email": the run loads the tasks and calls
\* send_task_email(user_email, ...).
SendEmail(s) ==
    /\ LoggedIn(s)
    /\ last' = RunRecord(s, "email")
    /\ UNCHANGED <<usersFile, taskFiles, session, now, registered>>

\* The Add Task form, submitted.
AddTask(s, task_name, course, due_date, effort, task_type, user_priority) ==
    LET user == session[s].user_email
        df == load_tasks_for_user(user)
        built == AddedFrame(df, task_name, course, due_date, effort, task_type,
                            user_priority)
    IN /\ LoggedIn(s)
       /\ due_date >= Today
       /\ Len(df) < MaxTasks
       /\ taskFiles' = IF built # df THEN save_tasks_for_user(user, built)
                       ELSE taskFiles
       /\ last' = [op |-> "add", sess |-> s, user |-> user,
                   verified |-> session[s].verified,
                   file |-> get_tasks_filename_for_user(user),
                   filesBefore |-> taskFiles,
                   name |-> task_name]
       /\ UNCHANGED <<usersFile, session, now, registered>>

\* The complete form, submitted for a name of the pending select box.
CompleteTask(s, actual_priority, actual_effort) ==
    LET user == session[s].user_email
        df == load_tasks_for_user(user)
    IN /\ LoggedIn(s)
       /\ \E choice \in PendingNames(df) :
            /\ taskFiles' =
                 IF NameIndex(df, choice) = {} THEN taskFiles
                 ELSE save_tasks_for_user(user,
                        CompletedFrame(df, choice, actual_priority, actual_effort))
            /\ last' = [op |-> "complete", sess |-> s, user |-> user,
                        verified |-> session[s].verified,
                        file |-> get_tasks_filename_for_user(user),
                        filesBefore |-> taskFiles,
                        name |-> choice, actual_priority |-> actual_priority,
                        actual_effort |-> actual_effort]
       /\ UNCHANGED <<usersFile, session, now, registered>>

\* "Delete Selected Task" for a name of the delete select box.
DeleteTask(s) ==
    LET user == session[s].user_email
        df == load_tasks_for_user(user)
    IN /\ LoggedIn(s)
       /\ \E delete_choice \in AllNames(df) :
            /\ taskFiles' = save_tasks_for_user(user, DeletedFrame(df, delete_choice))
            /\ last' = [op |-> "delete", sess |-> s, user |-> user,
                        verified |-> session[s].verified,
                        file |-> get_tasks_filename_for_user(user),
                        filesBefore |-> taskFiles,
                        name |-> delete_choice]
       /\ UNCHANGED <<usersFile, session, now, registered>>

(* ------------------- the credential store on its own ------------------ *)
AuthEmails == TextsUpTo({"a", "A", " "}, MaxEmailLen)
AuthPasswords == {"p", "P"}

InitAuth ==
    /\ usersFile = <<>>
    /\ taskFiles = <<>>
    /\ session = <<>>
    /\ now = 0
    /\ registered = {}
    /\ last = NoOp

NextAuth ==
    \/ \E e \in AuthEmails, p \in AuthPasswords : Register(e, p)
    \/ \E e \in AuthEmails, p \in AuthPasswords : Verify(e, p)

SpecAuth == InitAuth /\ [][NextAuth]_vars

(* ------------------ one user working on their tasks ------------------- *)
AppEmails == {<<"a", "@", "b">>}
AppPasswords == {"p"}
TaskNames == {<<>>, <<"A">>, <<"B">>, <<"N", "A">>}
Courses == {<<"c", "s">>}
AddEfforts == {"High"}
AddTypes == {"Reading"}
AddPriorities == {"Medium"}
FeedbackPriorities == {"Low", "High"}
FeedbackEfforts == {"As Estimated"}

Init ==
    /\ usersFile = <<>>
    /\ taskFiles = <<>>
    /\ session = [s \in {1} |-> NewSession]
    /\ now \in 0..1
    /\ registered = {}
    /\ last = NoOp

Next ==
    \/ \E s \in DOMAIN session, e \in AppEmails, p \in AppPasswords :
          RegisterClick(s, e, p)
    \/ \E s \in DOMAIN session, e \in AppEmails, p \in AppPasswords :
          LoginClick(s, e, p)
    \/ \E s \in DOMAIN session : Logout(s)
    \/ \E s \in DOMAIN session, n \in TaskNames, c \in Courses,
          d \in Today..(Today + 1), e \in AddEfforts, t \in AddTypes,
          u \in AddPriorities :
          AddTask(s, n, c, d, e, t, u)
    \/ \E s \in DOMAIN session, ap \in FeedbackPriorities, ae \in FeedbackEfforts :
          CompleteTask(s, ap, ae)
    \/ \E s \in DOMAIN session : DeleteTask(s)

Spec == Init /\ [][Next]_vars

(* ------------------- several users, one task file each ---------------- *)
OwnerEmails == {<<"A", "@">>, <<"a", "_">>, <<"b">>}
OwnerPasswords == {"p"}
LoginPasswords == {"p", "q"}
OwnerTaskNames == {<<"A">>}

Owners == {NormalizeEmail(e) : e \in OwnerEmails}

NextOwners ==
    \/ \E s \in DOMAIN session, e \in OwnerEmails, p \in OwnerPasswords :
          RegisterClick(s, e, p)
    \/ \E s \in DOMAIN session, e \in OwnerEmails, p \in LoginPasswords :
          LoginClick(s, e, p)
    \/ \E s \in DOMAIN session : Logout(s)
    \/ \E s \in DOMAIN session : View(s)
    \/ \E s \in DOMAIN session : SendEmail(s)
    \/ \E s \in DOMAIN session, n \in OwnerTaskNames, c \in Courses,
          e \in AddEfforts, t \in AddTypes, u \in AddPriorities :
          AddTask(s, n, c, Today + 1, e, t, u)
    \/ \E s \in DOMAIN session, ae \in FeedbackEfforts : CompleteTask(s, "High", ae)
    \/ \E s \in DOMAIN session : DeleteTask(s)

SpecOwners == Init /\ [][NextOwners]_vars

(* ------------------------ the derived numbers ------------------------- *)
\* The clock moves on by one tick.
Tick ==
    /\ now < MaxDay * TicksPerDay
    /\ now' = now + 1
    /\ UNCHANGED <<usersFile, taskFiles, session, registered, last>>

\* calculate_days_until_due called for a date (or a missing one).
CalcDays(due_date) ==
    /\ last' = [op |-> "days", due |-> due_date, at |-> now,
                result |-> calculate_days_until_due(due_date)]
    /\ UNCHANGED <<usersFile, taskFiles, session, now, registered>>

DueDates == {Missing} \cup {Some(d) : d \in 0..(MaxDay + 5)}

NextDays ==
    \/ Tick
    \/ \E d \in DueDates : CalcDays(d)

InitDays ==
    /\ usersFile = <<>>
    /\ taskFiles = <<>>
    /\ session = <<>>
    /\ now = 0
    /\ registered = {}
    /\ last = NoOp

SpecDays == InitDays /\ [][NextDays]_vars

\* The collections study_time_suggestions is tried on: up to MaxSuggestTasks
\* tasks of any effort, due date and status.
SuggestUser == <<"b">>

SuggestRow(effort, due_date, status) ==
    [name |-> <<"A">>, course |-> <<"c", "s">>, due |-> Some(due_date),
     effort |-> effort, type |-> "Reading", user_priority |-> "Medium",
     ai_priority |-> "Medium", status |-> status, days |-> Some(due_date),
     actual_priority |-> IF status = "Completed" THEN Some("Medium") ELSE Missing,
     actual_effort |-> IF status = "Completed" THEN Some("As Estimated") ELSE Missing,
     completed |-> IF status = "Completed" THEN Some(0) ELSE Missing]

SuggestRows == {SuggestRow(e, d, st) :
                  e \in ALL_EFFORTS, d \in 0..MaxDay, st \in {"Pending", "Completed"}}

SuggestFrames == UNION {[1..n -> SuggestRows] : n \in 0..MaxSuggestTasks}

InitSuggest ==
    /\ usersFile = <<>>
    /\ \E rows \in SuggestFrames :
          taskFiles = [f \in {get_tasks_filename_for_user(SuggestUser)} |-> rows]
    /\ session = <<>>
    /\ now = 0
    /\ registered = {}
    /\ last = NoOp

\* A day passes.
NextDay ==
    /\ Today < MaxDay
    /\ now' = now + TicksPerDay
    /\ UNCHANGED <<usersFile, taskFiles, session, registered, last>>

\* The dashboard computes the suggestion for the loaded tasks.
Suggest ==
    /\ last' = [op |-> "suggest", user |-> SuggestUser, at |-> now,
                result |-> study_time_suggestions(load_tasks_for_user(SuggestUser))]
    /\ UNCHANGED <<usersFile, taskFiles, session, now, registered>>

NextSuggest ==
    \/ NextDay
    \/ Suggest

SpecSuggest == InitSuggest /\ [][NextSuggest]_vars

(* ------------- two sessions of one user, load and save apart ---------- *)
\* A script run loads the file when it starts (df_tasks) and saves the whole
\* frame when a form is submitted; nothing is locked in between, so the load
\* and the save of a run are two steps here.  stale marks a loaded frame that
\* another run's save has made out of date.
RaceTaskNames == {<<"A">>, <<"B">>}

\* A variant that reads the file again when the form is submitted.
HandlerFrameReloaded(s) == load_tasks_for_user(session[s].user_email)

\* df_tasks of a run: the frame it loaded when it started.
HandlerFrame(s) == session[s].df

InitRace ==
    /\ usersFile = <<>>
    /\ taskFiles = <<>>
    /\ session = [s \in {1, 2} |-> NewSession]
    /\ now = 0
    /\ registered = {}
    /\ last = NoOp

StartRun(s) ==
    /\ LoggedIn(s)
    /\ session[s].pc = "idle"
    /\ session' = [session EXCEPT ![s].pc = "loaded",
                                  ![s].df = load_tasks_for_user(session[s].user_email),
                                  ![s].stale = FALSE]
    /\ last' = RunRecord(s, "load")
    /\ UNCHANGED <<usersFile, taskFiles, now, registered>>

\* The run of s ends; the frames other runs loaded from a file it saved are
\* out of date.
AfterRun(s, saved) ==
    [t \in DOMAIN session |->
        IF t = s THEN [session[s] EXCEPT !.pc = "idle", !.df = <<>>, !.stale = FALSE]
        ELSE IF /\ saved
                /\ session[t].pc = "loaded"
                /\ get_tasks_filename_for_user(session[t].user_email)
                     = get_tasks_filename_for_user(session[s].user_email)
             THEN [session[t] EXCEPT !.stale = TRUE]
             ELSE session[t]]

RaceRecord(s, op, name) ==
    [op |-> op, sess |-> s, user |-> session[s].user_email,
     verified |-> session[s].verified,
     file |-> get_tasks_filename_for_user(session[s].user_email),
     filesBefore |-> taskFiles, name |-> name,
     loaded |-> session[s].df, stale |-> session[s].stale]

EndRun(s) ==
    /\ session[s].pc = "loaded"
    /\ session' = AfterRun(s, FALSE)
    /\ last' = [op |-> "end", sess |-> s]
    /\ UNCHANGED <<usersFile, taskFiles, now, registered>>

RunAdd(s, task_name, course, due_date, effort, task_type, user_priority) ==
    LET df == HandlerFrame(s)
        built == AddedFrame(df, task_name, course, due_date, effort, task_type,
                            user_priority)
    IN /\ session[s].pc = "loaded"
       /\ due_date >= Today
       /\ Len(df) < MaxTasks
       /\ taskFiles' = save_tasks_for_user(session[s].user_email, built)
       /\ session' = AfterRun(s, TRUE)
       /\ last' = RaceRecord(s, "add", task_name)
       /\ UNCHANGED <<usersFile, now, registered>>

RunComplete(s, actual_priority, actual_effort) ==
    LET df == HandlerFrame(s)
    IN /\ session[s].pc = "loaded"
       /\ \E choice \in PendingNames(df) :
            /\ taskFiles' =
                 IF NameIndex(df, choice) = {} THEN taskFiles
                 ELSE save_tasks_for_user(session[s].user_email,
                        CompletedFrame(df, choice, actual_priority, actual_effort))
            /\ session' = AfterRun(s, NameIndex(df, choice) # {})
            /\ last' = RaceRecord(s, "complete", choice)
       /\ UNCHANGED <<usersFile, now, registered>>

RunDelete(s) ==
    LET df == HandlerFrame(s)
    IN /\ session[s].pc = "loaded"
       /\ \E delete_choice \in AllNames(df) :
            /\ taskFiles' = save_tasks_for_user(session[s].user_email,
                                                DeletedFrame(df, delete_choice))
            /\ last' = RaceRecord(s, "delete", delete_choice)
       /\ session' = AfterRun(s, TRUE)
       /\ UNCHANGED <<usersFile, now, registered>>

NextRace ==
    \/ \E s \in DOMAIN session, e \in AppEmails, p \in AppPasswords :
          RegisterClick(s, e, p)
    \/ \E s \in DOMAIN session, e \in AppEmails, p \in AppPasswords :
          LoginClick(s, e, p)
    \/ \E s \in DOMAIN session : StartRun(s)
    \/ \E s \in DOMAIN session : EndRun(s)
    \/ \E s \in DOMAIN session, n \in RaceTaskNames, c \in Courses,
          e \in AddEfforts, t \in AddTypes, u \in AddPriorities :
          RunAdd(s, n, c, Today + 1, e, t, u)
    \/ \E s \in DOMAIN session, ae \in FeedbackEfforts : RunComplete(s, "High", ae)
    \/ \E s \in DOMAIN session : RunDelete(s)

SpecRace == InitRace /\ [][NextRace]_vars

\* The emails of a set of (email, password) registrations.
KnownEmails(pairs) == {pr[1] : pr \in pairs}

(* --------------------- properties of the task store ------------------- *)
\* The collection load returns now for the user of the last run, and the one
\* that run loaded.
LoadedNow == load_tasks_for_user(last.user)

LoadedBefore == LoadFrom(last.filesBefore, last.user)

PendingCount(df) == Cardinality({i \in 1..Len(df) : IsPending(df[i])})

\* The Pending rows that carry a name, as the complete form lists them.
PendingWithName(df, name) == {i \in 1..Len(df) : IsPending(df[i]) /\ df[i].name = name}

IsCompletion(row, old) ==
    /\ row.status = "Completed"
    /\ row.actual_priority = Some(last.actual_priority)
    /\ row.actual_effort = Some(last.actual_effort)
    /\ row.completed # Missing
    /\ [row EXCEPT !.status = old.status, !.actual_priority = old.actual_priority,
                   !.actual_effort = old.actual_effort,
                   !.completed = old.completed] = old

\* What C3 asks of a completion of `name` that took `before` to `after`.
FirstPendingCompleted(before, after, name) ==
    LET first == Min(PendingWithName(before, name))
    IN /\ Len(after) = Len(before)
       /\ IsCompletion(after[first], before[first])
       /\ \A j \in 1..Len(before) : j # first => after[j] = before[j]
       /\ PendingCount(after) = PendingCount(before) - 1

\* C3: completing a task name that has a Pending task turns the first Pending
\* task of that name into a Completed one with its feedback and date, takes
\* the number of Pending tasks down by one and leaves every other task alone.
\* Stated for names that read_csv reads back as text.
C3_CompleteFirstPending ==
    (last.op = "complete" /\ last.name # NaN) =>
        FirstPendingCompleted(LoadedBefore, LoadedNow, last.name)

\* C3 where no earlier task of that name is already Completed: there the
\* first task of the name is the first Pending one.
C3_CompleteFirstPendingNoEarlierDone ==
    (/\ last.op = "complete"
     /\ last.name # NaN
     /\ \A i \in 1..Len(LoadedBefore) :
           LoadedBefore[i].name = last.name /\ ~IsPending(LoadedBefore[i])
               => i > Min(PendingWithName(LoadedBefore, last.name)))
    => FirstPendingCompleted(LoadedBefore, LoadedNow, last.name)

\* A completion of a name that has both a Completed and a Pending task.
C3_Witness ==
    /\ last.op = "complete"
    /\ last.name # NaN
    /\ \E i \in 1..Len(LoadedBefore) :
          LoadedBefore[i].name = last.name /\ ~IsPending(LoadedBefore[i])

FeedbackUnset(r) ==
    r.completed = Missing /\ r.actual_priority = Missing /\ r.actual_effort = Missing

FeedbackSet(r) ==
    r.completed # Missing /\ r.actual_priority # Missing /\ r.actual_effort # Missing

\* C4: in every reachable state every Pending task has completed_date,
\* actual_priority and actual_effort_rating unset, and every Completed task has
\* all three set.
C4_FeedbackMatchesStatus ==
    \A f \in DOMAIN taskFiles : \A i \in 1..Len(taskFiles[f]) :
        LET r == ReadRow(taskFiles[f][i])
        IN /\ r.status \in {"Pending", "Completed"}
           /\ r.status = "Pending" => FeedbackUnset(r)
           /\ r.status = "Completed" => FeedbackSet(r)

\* A collection that holds a Pending and a Completed task after a deletion.
C4_Witness ==
    /\ last.op = "delete"
    /\ \E i, j \in 1..Len(LoadedNow) :
          LoadedNow[i].status = "Pending" /\ LoadedNow[j].status = "Completed"

\* The rows of a frame whose name is not `name`, in order.
Without(df, name) ==
    LET Other(r) == r.name # name
    IN SelectSeq(df, Other)

\* C7: delete removes every task whose name equals the chosen name, whatever
\* its status, and leaves the other tasks unchanged and in their order; when
\* no task has that name the collection is unchanged.
C7_DeleteRemovesAllOfName ==
    last.op = "delete" => LoadedNow = Without(LoadedBefore, last.name)

\* C7 for the names that read_csv reads back as text.
C7_DeleteRemovesAllOfNameText ==
    (last.op = "delete" /\ last.name # NaN) =>
        LoadedNow = Without(LoadedBefore, last.name)

\* A deletion that removed a Pending and a Completed task of one name and
\* kept two others.
C7_Witness ==
    /\ last.op = "delete"
    /\ last.name # NaN
    /\ \E i, j \in 1..Len(LoadedBefore) :
          /\ LoadedBefore[i].name = last.name /\ LoadedBefore[i].status = "Pending"
          /\ LoadedBefore[j].name = last.name /\ LoadedBefore[j].status = "Completed"
    /\ Len(LoadedNow) >= 1

(* ----------------------- properties of ownership ---------------------- *)
Mutations == {"add", "complete", "delete"}

TaskStoreRuns == Mutations \cup {"load", "email"}

\* The last run, a mutation by its user, left the collection of `other` as
\* it was.
Untouched(other) == load_tasks_for_user(other) = LoadFrom(last.filesBefore, other)

\* C5: for any two distinct normalized emails A and B, no add, complete or
\* delete performed in a session logged in as A changes the collection that
\* load returns for B.
C5_NoCrossUserEffect ==
    last.op \in Mutations =>
        \A other \in Owners : other # last.user => Untouched(other)

\* C5 for emails that stay distinct once every character outside
\* [0-9A-Za-z\-_.] is replaced by "_".
C5_NoCrossUserEffectDistinctFiles ==
    last.op \in Mutations =>
        \A other \in Owners :
            sanitize_email_for_filename(other) # sanitize_email_for_filename(last.user)
                => Untouched(other)

\* A mutation by one user that changed their collection while another user,
\* with another file name, holds tasks.
C5_Witness ==
    /\ last.op \in Mutations
    /\ ~Untouched(last.user)
    /\ \E other \in Owners :
          /\ sanitize_email_for_filename(other) # sanitize_email_for_filename(last.user)
          /\ load_tasks_for_user(other) # <<>>

\* C10: a session's user_email is unset or the normalized email of a login
\* whose credentials verified in that session; the task store is loaded or
\* saved (and the email sent) only with user_email set and for that email's
\* file; logout returns user_email to unset.
C10_SessionGate ==
    /\ \A s \in DOMAIN session :
          \/ session[s].user_email = None
          \/ /\ session[s].user_email = session[s].verified
             /\ session[s].user_email \in KnownEmails(registered)
    /\ last.op \in TaskStoreRuns =>
          /\ last.user # None
          /\ last.user = last.verified
          /\ last.file = <<"tasks_">> \o sanitize_email_for_filename(last.user)
                                      \o <<".csv">>
          /\ \A f \in DOMAIN taskFiles :
                f # last.file => /\ f \in DOMAIN last.filesBefore
                                 /\ taskFiles[f] = last.filesBefore[f]
    /\ last.op = "logout" => session[last.sess].user_email = None
    /\ (last.op = "login" /\ ~last.ok) => session[last.sess].user_email = None

\* A task-store run after a logout and a new login as another user.
C10_Witness ==
    /\ last.op \in Mutations
    /\ \E f \in DOMAIN taskFiles : f # last.file /\ taskFiles[f] # <<>>
    /\ last.user = <<"b">>

(* ------------------------ properties of the race ---------------------- *)
\* `after` is `before` with one more task, named `name` and Pending, at the end.
IsAddOf(before, after, name) ==
    /\ Len(after) = Len(before) + 1
    /\ SubSeq(after, 1, Len(before)) = before
    /\ after[Len(after)].name = name
    /\ after[Len(after)].status = "Pending"

\* `after` is `before` with one task of `name` turned Completed.
IsCompletionOf(before, after, name) ==
    /\ Len(after) = Len(before)
    /\ \E i \in 1..Len(before) :
          /\ before[i].name = name
          /\ after[i].name = name
          /\ after[i].status = "Completed"
          /\ \A j \in 1..Len(before) : j # i => after[j] = before[j]

\* The collection is what the last run built from the frame it had loaded.
BuiltFromOwnLoad ==
    CASE last.op = "add" -> IsAddOf(last.loaded, LoadedNow, last.name)
      [] last.op = "complete" -> IsCompletionOf(last.loaded, LoadedNow, last.name)
      [] last.op = "delete" -> LoadedNow = Without(last.loaded, last.name)

\* C8: when two sessions of one user both load before either saves, the file
\* after both saves is exactly the collection the last saver built from its
\* own load: the first saver's update is not in it.
C8_LastWriteWins ==
    (last.op \in Mutations /\ last.stale) => BuiltFromOwnLoad

\* Both sessions loaded the empty file, the first saver added a task, and the
\* last saver's add replaced the file: the first saver's task is gone.
C8_Witness ==
    /\ last.op = "add"
    /\ last.stale
    /\ last.loaded = <<>>
    /\ Len(LoadedBefore) = 1
    /\ Len(LoadedNow) = 1
    /\ LoadedBefore[1].name # LoadedNow[1].name

(* ------------------- properties of the derived numbers ---------------- *)
\* C6: for a calendar due date and every current time of day, days_until_due
\* is max(0, calendar days from today to the due date): 0 for today, 0 for
\* yesterday, 5 for today + 5 days.
C6_CalendarDaysUntilDue ==
    (last.op = "days" /\ last.due # Missing) =>
        last.result = Some(Max(0, last.due[1] - (last.at \div TicksPerDay)))

\* What the code computes: a day less once midnight has passed, clamped at 0.
C6_WholeDaysUntilDue ==
    (last.op = "days" /\ last.due # Missing) =>
        LET today == last.at \div TicksPerDay
            started == IF last.at % TicksPerDay = 0 THEN 0 ELSE 1
        IN last.result = Some(Max(0, last.due[1] - today - started))

PendingAt(df) == {i \in 1..Len(df) : IsPending(df[i])}

RECURSIVE SumTenthsOver(_, _)
SumTenthsOver(df, S) ==
    IF S = {} THEN 0
    ELSE LET i == CHOOSE x \in S : TRUE
         IN (CASE df[i].effort = "Low" -> 10
               [] df[i].effort = "Medium" -> 25
               [] df[i].effort = "High" -> 50)
            + SumTenthsOver(df, S \ {i})

\* r tenths is hours / days rounded to one decimal: no tenth is nearer.
IsRoundedTenth(r, tenths, days) ==
    LET diff == r * days - tenths
    IN 2 * diff <= days /\ 2 * (0 - diff) <= days

\* C9: suggested_daily_hours is absent for an empty collection, 0 when no task
\* is Pending, and otherwise the effort hours of the Pending tasks only,
\* divided by max(1, days from today to the nearest Pending due date) and
\* rounded to one decimal; a sole Pending High task due in 3 days gives 1.7.
C9_SuggestedDailyHours ==
    last.op = "suggest" =>
        LET df == LoadedNow
            today == last.at \div TicksPerDay
            P == PendingAt(df)
            nearest == Min({df[i].due[1] : i \in P})
        IN /\ df = <<>> => last.result = Missing
           /\ (df # <<>> /\ P = {}) => last.result = Some(0)
           /\ P # {} =>
                /\ last.result # Missing
                /\ IsRoundedTenth(last.result[1], SumTenthsOver(df, P),
                                  Max(1, nearest - today))
           /\ (\E i \in P : /\ P = {i}
                            /\ df[i].effort = "High"
                            /\ df[i].due[1] = today + 3)
                => last.result = Some(17)

\* A sole Pending High task due in 3 days beside a Completed task that is due
\* sooner: the suggestion is 1.7 hours a day.
C9_Witness ==
    /\ last.op = "suggest"
    /\ last.result = Some(17)
    /\ \E i, j \in 1..Len(LoadedNow) :
          /\ PendingAt(LoadedNow) = {i}
          /\ LoadedNow[j].status = "Completed"
          /\ LoadedNow[j].due[1] < LoadedNow[i].due[1]
          /\ LoadedNow[j].effort # "High"

\* C1: verify(email, password) is true iff an earlier register with the same
\* normalized email and exactly that password returned success.
C1_VerifyIffRegistered ==
    last.op = "verify" =>
        (last.ok <=> <<NormalizeEmail(last.email), last.password>> \in registered)

\* C1 restricted to emails whose normalized form is not an NA spelling.
C1_VerifyIffRegisteredNonNA ==
    (last.op = "verify" /\ NormalizeEmail(last.email) \notin NAValues) =>
        (last.ok <=> <<NormalizeEmail(last.email), last.password>> \in registered)

\* C2: the first register of a normalized email succeeds and appends one
\* credential; every later one fails and leaves the store unchanged, so the
\* store never holds two records for one normalized email.
C2_OneRecordPerEmail ==
    /\ \A i, j \in 1..Len(usersFile) :
          i # j => usersFile[i].email # usersFile[j].email
    /\ last.op = "register" =>
          IF NormalizeEmail(last.email) \in KnownEmails(last.known)
          THEN ~last.ok /\ usersFile = last.before
          ELSE last.ok /\ Len(usersFile) = Len(last.before) + 1
                       /\ SubSeq(usersFile, 1, Len(last.before)) = last.before

\* C2 restricted to emails whose normalized form is not an NA spelling.
C2_OneRecordPerEmailNonNA ==
    /\ \A i, j \in 1..Len(usersFile) :
          (i # j /\ usersFile[i].email \notin NAValues)
              => usersFile[i].email # usersFile[j].email
    /\ (last.op = "register" /\ NormalizeEmail(last.email) \notin NAValues) =>
          IF NormalizeEmail(last.email) \in KnownEmails(last.known)
          THEN ~last.ok /\ usersFile = last.before
          ELSE last.ok /\ Len(usersFile) = Len(last.before) + 1
                       /\ SubSeq(usersFile, 1, Len(last.before)) = last.before

====
